---- MODULE Spec2Model ----
(***************************************************************************)
(* A state-machine model of src/ben/prune.py: the pruning orchestrator     *)
(* (prune_and_evaluate, score_and_prune), the random-baseline pruner       *)
(* (prune_random, prune_random_and_evaluate) and the iteration controller  *)
(* (run_pruning).                                                          *)
(*                                                                         *)
(* Representation.                                                         *)
(*  - Fractions (ff_frac, attn_frac) are fixed-point numbers in eighths:   *)
(*    the integer n stands for n/8 and One stands for 1.0.  Multiples of   *)
(*    1/8 times small integers are exact in IEEE doubles, so the integer   *)
(*    arithmetic below is the arithmetic the code performs.                *)
(*  - A boolean mask tensor is the set of its true indices.                *)
(*  - Python's None is "None" for opaque values, -1 for the iteration      *)
(*    index and << >> for arrays.                                          *)
(*  - Activation summaries are opaque: a tag says who collected them.      *)
(*  - The external scoring function is a black box: it returns any tensor  *)
(*    over ScoreValues.  The tensor is consumed by the selection in the    *)
(*    same step; the row keeps whether raw tensors are attached.           *)
(*  - ret is the value the caller receives: it is set by the return         *)
(*    statement of the function the caller invoked and by nothing else, so  *)
(*    a call that ends in an exception leaves it at NoData.                 *)
(*  - trace is the log of the calls made on the external collaborators     *)
(*    (Model, get_midlayer_activations, evaluate_all, the scorer and the   *)
(*    selector), in program order.                                         *)
(***************************************************************************)
EXTENDS Integers, Sequences, FiniteSets, TLC

VARIABLES entry,        \* the function the caller invoked
          cfg,          \* opt.cfg: the model's shape
          c,            \* the caller's PruningConfig
          pc,           \* position in the program
          err,          \* the exception that ended the call, or "none"
          opt,          \* the Model: deleted units and the mask-offset store
          history,      \* RunDataHistory: the rows added so far
          trace,        \* calls made on the collaborators, in order
          run,          \* locals of run_pruning
          pae,          \* locals of prune_and_evaluate
          sap,          \* locals of score_and_prune
          rnd,          \* locals of prune_random
          data,         \* the RunDataItem being built / returned
          arg,          \* the arguments of a pure function called on its own
          ret           \* what the call returned to its caller

vars == << entry, cfg, c, pc, err, opt, history, trace, run, pae, sap, rnd, data,
           arg, ret >>

----------------------------------------------------------------------------
(* Bounds and input sets *)

MaxSteps == 2
One == 8

\* the values the external scoring function returns: any of CallScores in a
\* single call of the orchestrator, RunScores in a whole run
CallScores == {0, 1}
RunScores == {0}

Fracs == {-4, 0, 2, 8}
RunFracs == {0, 4, 8}
AttnModes == {"pre-out", "value", "other"}
Scorings == {"abs", "random"}
OffsetModes == {"zero", "mean", "peak"}

Shapes == { [n_layers |-> 2, d_mlp |-> 3, n_heads |-> 2, d_head |-> 1] }

----------------------------------------------------------------------------
(* Tensor index sets of the model shape *)

Layers == 0 .. (cfg.n_layers - 1)
d_model == cfg.n_heads * cfg.d_head
FFUnits == Layers \X (0 .. (cfg.d_mlp - 1))
Heads == Layers \X (0 .. (cfg.n_heads - 1))
AttnUnits == Layers \X (0 .. (cfg.n_heads - 1)) \X (0 .. (cfg.d_head - 1))

FFIdx(x) == x[1] * cfg.d_mlp + x[2]
HeadIdx(x) == x[1] * cfg.n_heads + x[2]
AttnIdx(x) == (x[1] * cfg.n_heads + x[2]) * cfg.d_head + x[3]

\* the (layer, d_model) position of an attention unit (layer, head, d_head)
Flat(x) == << x[1], x[2] * cfg.d_head + x[3] >>

Min(S) == CHOOSE x \in S : \A y \in S : x <= y
MinOf(a, b) == IF a <= b THEN a ELSE b

\* Python's int(): truncation toward zero of n/d
Trunc(n, d) == IF n >= 0 THEN n \div d ELSE -((-n) \div d)

ScoreValues == IF entry = "run_pruning" THEN RunScores ELSE CallScores

Log(op, a) == Append(trace, [op |-> op, arg |-> a])

----------------------------------------------------------------------------
(* External collaborators *)

\* a variant whose order among equal scores depends on the number selected
get_top_frac_unstable(S, sc, idx, frac) ==
    LET k == Trunc(frac * Cardinality(S), One)
        Beats(y, x) == \/ sc[y] > sc[x]
                       \/ /\ sc[y] = sc[x]
                          /\ IF k % 2 = 0 THEN idx[y] < idx[x] ELSE idx[y] > idx[x]
        crit == { x \in S : Cardinality({ y \in S : Beats(y, x) }) < k }
    IN  [criteria |-> crit,
         threshold |-> IF crit = {} THEN 0 ELSE Min({ sc[x] : x \in crit })]

\* taker.activations.get_top_frac: the k = int(frac * n_entries) best-ranked
\* entries of the whole tensor, ties by original index order, and the
\* threshold (the lowest selected score; zero for an empty selection).
get_top_frac(S, sc, idx, frac) ==
    LET k == Trunc(frac * Cardinality(S), One)
        Beats(y, x) == sc[y] > sc[x] \/ (sc[y] = sc[x] /\ idx[y] < idx[x])
        crit == { x \in S : Cardinality({ y \in S : Beats(y, x) }) < k }
    IN  [criteria |-> crit,
         threshold |-> IF crit = {} THEN 0 ELSE Min({ sc[x] : x \in crit })]

\* choose_attn_heads_by(mode): selection at head granularity; a head's score
\* is the sum of its units' scores.
attn_head_scoring_fn(sc, frac) ==
    LET RECURSIVE Sum(_)
        Sum(T) == IF T = {} THEN 0
                  ELSE LET x == CHOOSE x \in T : TRUE IN sc[x] + Sum(T \ {x})
        hs == [h \in Heads |-> Sum({ x \in AttnUnits : x[1] = h[1] /\ x[2] = h[2] })]
    IN  get_top_frac(Heads, hs, [h \in Heads |-> HeadIdx(h)], frac)

\* Model.expand_remove_heads_to_remove_indices: a head's decision is
\* broadcast to every unit of the head.
expand_remove_heads_to_remove_indices(heads) ==
    { x \in AttnUnits : << x[1], x[2] >> \in heads }

\* Model.delete_ff_keys / delete_attn_pre_out / delete_attn_values: the
\* masked units are removed in place; removal is cumulative.
delete_ff_keys(mask) == [opt EXCEPT !.ff = @ \cup mask]
delete_attn(mask) == [opt EXCEPT !.attn = @ \cup mask]

\* Model.update_mask_offsets
update_mask_offsets(target) == [opt EXCEPT !.offsets = Append(@, target)]

----------------------------------------------------------------------------
(* Initial values of the locals *)

NoneArr == << >>

PaeIdle == [focus_out |-> "None", cripple_out |-> "None", iteration |-> -1, c |-> c]

SapIdle == [pruning_config |-> c, focus |-> "None", cripple |-> "None",
            ff_scores |-> "None", ff_criteria |-> {}, ff_threshold |-> 0,
            attn_scores |-> "None", attn_criteria |-> {}, attn_threshold |-> 0,
            means |-> "None"]

RunIdle == [i |-> 0, focus_out |-> "None", cripple_out |-> "None",
            ff_pruned |-> NoneArr, attn_pruned |-> NoneArr]

RndIdle == [ff_pruned |-> NoneArr, attn_pruned |-> NoneArr, layer |-> 0,
            fresh_ff |-> FALSE, fresh_attn |-> FALSE]

NoData == [kind |-> "none"]

Raise(e) == /\ pc' = "raised"
            /\ err' = e

----------------------------------------------------------------------------
(* prune_and_evaluate *)

\* a variant that tests the fraction against zero only
do_ff_nonzero == c.ff_frac # 0

\* lines 42-43: what the call is asked to prune
do_ff == c.ff_frac > 0
do_attn == c.attn_frac > 0

\* variants of the mode test: one accepting every mode, one accepting only
\* 'pre-out'
recognized_attn_mode_any(m) == m = m
recognized_attn_mode_pre_out_only(m) == m = "pre-out"

\* line 46
recognized_attn_mode(m) == m \in {"pre-out", "value"}

\* variants of the rescaling: without the cap, and with the iteration index
\* in place of the iteration count
rescale_uncapped(frac, it) == frac * (it + 1)
rescale_by_index(frac, it) == MinOf(One, frac * it)

\* lines 58-59: the pruning fraction of iteration it (0-based)
rescale(frac, it) == MinOf(One, frac * (it + 1))

\* lines 39-47: copy the config, then validate it
prune_and_evaluate_validate ==
    /\ pc = "pae_validate"
    /\ pae' = [pae EXCEPT !.c = c]
    /\ IF ~do_ff /\ ~do_attn
         THEN Raise("ValueError: must prune at least one of FF or Attention")
       ELSE IF do_attn /\ ~recognized_attn_mode(c.attn_mode)
         THEN Raise("NotImplementedError: attn_mode")
       ELSE /\ pc' = IF c.recalculate_activations THEN "pae_collect_focus"
                                                   ELSE "pae_rescale"
            /\ err' = err
    /\ UNCHANGED << arg, ret, entry, cfg, c, opt, history, trace, run, sap, rnd, data >>

\* a variant that keeps a focus summary the caller passed in
prune_and_evaluate_collect_focus_if_missing ==
    /\ pc = "pae_collect_focus"
    /\ IF pae.focus_out = "None"
         THEN /\ trace' = Log("get_midlayer_activations", "focus")
              /\ pae' = [pae EXCEPT !.focus_out = "fresh"]
       ELSE UNCHANGED << trace, pae >>
    /\ pc' = "pae_collect_cripple"
    /\ UNCHANGED << arg, ret, entry, cfg, c, err, opt, history, run, sap, rnd, data >>

\* lines 50-52
prune_and_evaluate_collect_focus ==
    /\ pc = "pae_collect_focus"
    /\ trace' = Log("get_midlayer_activations", "focus")
    /\ pae' = [pae EXCEPT !.focus_out = "fresh"]
    /\ pc' = "pae_collect_cripple"
    /\ UNCHANGED << arg, ret, entry, cfg, c, err, opt, history, run, sap, rnd, data >>

\* lines 53-54
prune_and_evaluate_collect_cripple ==
    /\ pc = "pae_collect_cripple"
    /\ trace' = Log("get_midlayer_activations", "cripple")
    /\ pae' = [pae EXCEPT !.cripple_out = "fresh"]
    /\ pc' = "pae_call_sap"
    /\ UNCHANGED << arg, ret, entry, cfg, c, err, opt, history, run, sap, rnd, data >>

\* a variant that rescales the caller's config itself, not a copy of it
prune_and_evaluate_rescale_in_place ==
    /\ pc = "pae_rescale"
    /\ IF pae.iteration = -1
         THEN /\ Raise("TypeError: NoneType + int")
              /\ UNCHANGED << pae, c >>
       ELSE /\ c' = [c EXCEPT !.ff_frac = rescale(c.ff_frac, pae.iteration),
                              !.attn_frac = rescale(c.attn_frac, pae.iteration)]
            /\ pae' = [pae EXCEPT !.c = c']
            /\ IF pae.focus_out = "None" \/ pae.cripple_out = "None"
                 THEN Raise("AssertionError: must provide focus_out and cripple_out")
               ELSE /\ pc' = "pae_call_sap"
                    /\ err' = err
    /\ UNCHANGED << arg, ret, entry, cfg, opt, history, trace, run, sap, rnd, data >>

\* lines 57-61: (iteration + 1) on a missing iteration is a TypeError; the
\* assertion follows the rescaling
prune_and_evaluate_rescale ==
    /\ pc = "pae_rescale"
    /\ IF pae.iteration = -1
         THEN /\ Raise("TypeError: NoneType + int")
              /\ pae' = pae
       ELSE /\ pae' = [pae EXCEPT
                          !.c.ff_frac = rescale(pae.c.ff_frac, pae.iteration),
                          !.c.attn_frac = rescale(pae.c.attn_frac, pae.iteration)]
            /\ IF pae.focus_out = "None" \/ pae.cripple_out = "None"
                 THEN Raise("AssertionError: must provide focus_out and cripple_out")
               ELSE /\ pc' = "pae_call_sap"
                    /\ err' = err
    /\ UNCHANGED << arg, ret, entry, cfg, c, opt, history, trace, run, sap, rnd, data >>

\* line 64: the call of score_and_prune with the copied config
prune_and_evaluate_call_score_and_prune ==
    /\ pc = "pae_call_sap"
    /\ sap' = [SapIdle EXCEPT !.pruning_config = pae.c,
                              !.focus = pae.focus_out,
                              !.cripple = pae.cripple_out]
    /\ pc' = "sap_ff"
    /\ UNCHANGED << arg, ret, entry, cfg, c, err, opt, history, trace, run, pae, rnd, data >>

\* lines 67-70
prune_and_evaluate_evaluate ==
    /\ pc = "pae_evaluate"
    /\ trace' = Log("evaluate_all", "datasets")
    /\ data' = [data EXCEPT !.eval = TRUE]
    /\ pc' = "pae_return"
    /\ UNCHANGED << arg, ret, entry, cfg, c, err, opt, history, run, pae, sap, rnd >>

\* line 72
prune_and_evaluate_return ==
    /\ pc = "pae_return"
    /\ pc' = IF entry = "run_pruning" THEN "run_add" ELSE "done"
    /\ ret' = IF entry = "run_pruning" THEN ret ELSE data
    /\ UNCHANGED << arg, entry, cfg, c, err, opt, history, trace, run, pae, sap, rnd, data >>

----------------------------------------------------------------------------
(* score_and_prune *)

\* lines 390-393
sap_do_ff == sap.pruning_config.ff_frac > 0
sap_do_attn == sap.pruning_config.attn_frac > 0

\* lines 396-402: score the FF units and select the top fraction
score_and_prune_ff ==
    /\ pc = "sap_ff"
    /\ IF sap_do_ff
         THEN \E sc \in [FFUnits -> ScoreValues] :
                LET sel == get_top_frac(FFUnits, sc, [x \in FFUnits |-> FFIdx(x)],
                                        sap.pruning_config.ff_frac)
                IN  /\ sap' = [sap EXCEPT !.ff_scores = "tensor",
                                          !.ff_criteria = sel.criteria,
                                          !.ff_threshold = sel.threshold]
                    /\ trace' = Append(Log("ff_scoring_fn", sap.focus),
                                       [op |-> "get_top_frac_ff",
                                        arg |-> sap.pruning_config.ff_frac])
                    /\ pc' = "sap_ff_delete"
       ELSE /\ pc' = "sap_attn"
            /\ UNCHANGED << sap, trace >>
    /\ UNCHANGED << arg, ret, entry, cfg, c, err, opt, history, run, pae, rnd, data >>

\* a variant that goes on to the attention units without deleting
score_and_prune_ff_delete_skipped ==
    /\ pc = "sap_ff_delete"
    /\ pc' = "sap_attn"
    /\ UNCHANGED << arg, ret, entry, cfg, c, err, opt, history, trace, run, pae, sap, rnd, data >>

\* line 403
score_and_prune_ff_delete ==
    /\ pc = "sap_ff_delete"
    /\ opt' = delete_ff_keys(sap.ff_criteria)
    /\ trace' = Log("delete_ff_keys", "criteria")
    /\ pc' = "sap_attn"
    /\ UNCHANGED << arg, ret, entry, cfg, c, err, history, run, pae, sap, rnd, data >>

\* lines 406-428: score the attention units, then select heads (expanded to
\* their units) or units; the criteria has shape (n_layers, n_heads, d_head)
score_and_prune_attn ==
    /\ pc = "sap_attn"
    /\ IF sap_do_attn
         THEN \E sc \in [AttnUnits -> ScoreValues] :
                LET frac == sap.pruning_config.attn_frac
                    heads == attn_head_scoring_fn(sc, frac)
                    units == get_top_frac(AttnUnits, sc, [x \in AttnUnits |-> AttnIdx(x)], frac)
                    byhead == sap.pruning_config.attn_prune_heads
                IN  /\ sap' = [sap EXCEPT
                          !.attn_scores = "tensor",
                          !.means = IF sap.pruning_config.do_attn_mean_offset
                                      THEN "mean" ELSE "None",
                          !.attn_criteria =
                              IF byhead
                                THEN expand_remove_heads_to_remove_indices(heads.criteria)
                                ELSE units.criteria,
                          !.attn_threshold =
                              IF byhead THEN heads.threshold ELSE units.threshold]
                    /\ trace' = Append(Log("attn_scoring_fn", sap.focus),
                                       [op |-> IF byhead THEN "attn_head_scoring_fn"
                                                         ELSE "get_top_frac_attn",
                                        arg |-> frac])
                    /\ pc' = "sap_attn_delete"
       ELSE /\ pc' = "sap_package"
            /\ UNCHANGED << sap, trace >>
    /\ UNCHANGED << arg, ret, entry, cfg, c, err, opt, history, run, pae, rnd, data >>

\* lines 431-436
score_and_prune_attn_delete ==
    /\ pc = "sap_attn_delete"
    /\ IF sap.pruning_config.attn_mode = "pre-out"
         THEN /\ opt' = delete_attn({ Flat(x) : x \in sap.attn_criteria })
              /\ trace' = Log("delete_attn_pre_out", sap.means)
              /\ pc' = "sap_package"
              /\ err' = err
       ELSE IF sap.pruning_config.attn_mode = "value"
         THEN /\ opt' = delete_attn({ Flat(x) : x \in sap.attn_criteria })
              /\ trace' = Log("delete_attn_values", sap.means)
              /\ pc' = "sap_package"
              /\ err' = err
       ELSE /\ Raise("NotImplementedError: attn_mode")
            /\ UNCHANGED << opt, trace >>
    /\ UNCHANGED << arg, ret, entry, cfg, c, history, run, pae, sap, rnd, data >>

\* the delete operation of the Model may itself fail (an external failure)
score_and_prune_attn_delete_fails ==
    /\ pc = "sap_attn_delete"
    /\ recognized_attn_mode(sap.pruning_config.attn_mode)
    /\ Raise("RuntimeError: delete failed")
    /\ UNCHANGED << arg, ret, entry, cfg, c, opt, history, trace, run, pae, sap, rnd, data >>

\* lines 452-457
deletions ==
    [ff_threshold |-> IF sap_do_ff THEN sap.ff_threshold ELSE 0,
     attn_threshold |-> IF sap_do_attn THEN sap.attn_threshold ELSE 0,
     ff_del |-> IF sap_do_ff THEN Cardinality(sap.ff_criteria) ELSE 0,
     attn_del |-> IF sap_do_attn THEN Cardinality(sap.attn_criteria) ELSE 0]

\* lines 459-462: sums over the last dimension: per layer for FF, per
\* (layer, head) for attention
deletions_per_layer ==
    [ff |-> IF sap_do_ff
              THEN [l \in Layers |->
                      Cardinality({ x \in sap.ff_criteria : x[1] = l })]
              ELSE << >>,
     attn |-> IF sap_do_attn
                THEN [l \in Layers |-> [h \in 0 .. (cfg.n_heads - 1) |->
                        Cardinality({ x \in sap.attn_criteria :
                                        x[1] = l /\ x[2] = h })]]
                ELSE << >>]

\* the shapes of the two criteria tensors: get_top_frac keeps the shape of
\* the FF scores (line 402); the attention criteria are expanded (line 424)
\* or reshaped (lines 427-428) to (n_layers, n_heads, d_head)
criteria_shape ==
    [ff |-> << cfg.n_layers, cfg.d_mlp >>,
     attn |-> << cfg.n_layers, cfg.n_heads, cfg.d_head >>]

\* lines 460-461: sum(dim=-1) drops the last dimension; tolist() nests one
\* list per remaining dimension
per_layer_shape ==
    [kind \in {"ff", "attn"} |->
        SubSeq(criteria_shape[kind], 1, Len(criteria_shape[kind]) - 1)]

\* lines 439-445, 465-468
raw ==
    [ff_scores |-> IF sap_do_ff THEN sap.ff_scores ELSE "None",
     attn_scores |-> IF sap_do_attn THEN sap.attn_scores ELSE "None",
     ff_criteria |-> IF sap_do_ff THEN "tensor" ELSE "None",
     attn_criteria |-> IF sap_do_attn THEN "tensor" ELSE "None"]

\* lines 438-470: package the result row and return it
score_and_prune_package ==
    /\ pc = "sap_package"
    /\ data' = [kind |-> "prune", deletions |-> deletions,
                deletions_per_layer |-> deletions_per_layer,
                raw |-> raw, eval |-> FALSE]
    /\ pc' = IF entry = "score_and_prune" THEN "done" ELSE "pae_evaluate"
    /\ ret' = IF entry = "score_and_prune" THEN data' ELSE ret
    /\ UNCHANGED << arg, entry, cfg, c, err, opt, history, trace, run, pae, sap, rnd >>

----------------------------------------------------------------------------
(* prune_random *)

\* a variant that rounds up
n_to_prune_rounded_up(frac, units_per_layer) ==
    Trunc(frac * units_per_layer + One - 1, One)

\* lines 490-491
n_to_prune(frac, units_per_layer) == Trunc(frac * units_per_layer, One)

\* a variant that offers every index of the layer
unpruned_all(pruned, layer, units_per_layer) == 0 .. (units_per_layer - 1)

\* lines 497 / 507: np.where(pruned[layer] == 0)
unpruned(pruned, layer, units_per_layer) ==
    (0 .. (units_per_layer - 1)) \ pruned[layer]

\* lines 485-491: a missing mask is a new all-false array; a mask passed in
\* is the caller's array itself
prune_random_entry ==
    /\ pc = "rnd_entry"
    /\ rnd' = [ff_pruned |-> IF run.ff_pruned = NoneArr
                               THEN [l \in Layers |-> {}] ELSE run.ff_pruned,
               attn_pruned |-> IF run.attn_pruned = NoneArr
                                 THEN [l \in Layers |-> {}] ELSE run.attn_pruned,
               fresh_ff |-> (run.ff_pruned = NoneArr),
               fresh_attn |-> (run.attn_pruned = NoneArr),
               layer |-> 0]
    /\ pc' = IF c.ff_frac # 0 THEN "rnd_ff"
             ELSE IF c.attn_frac # 0 THEN "rnd_attn" ELSE "rnd_return"
    /\ UNCHANGED << arg, ret, entry, cfg, c, err, opt, history, trace, run, pae, sap, data >>

\* lines 495-499: one pass of the FF loop; np.random.choice(indices, n,
\* replace=False) draws n distinct indices or raises ValueError.  The marks
\* are written into the array in place, so an array passed in by the caller
\* changes with them.
prune_random_ff_layer ==
    /\ pc = "rnd_ff"
    /\ rnd.layer < cfg.n_layers
    /\ LET n == n_to_prune(c.ff_frac, cfg.d_mlp)
           indices == unpruned(rnd.ff_pruned, rnd.layer, cfg.d_mlp)
       IN  IF n < 0
             THEN /\ Raise("ValueError: negative dimensions are not allowed")
                  /\ UNCHANGED << rnd, run >>
           ELSE IF n > Cardinality(indices)
             THEN /\ Raise("ValueError: cannot take a larger sample than population")
                  /\ UNCHANGED << rnd, run >>
           ELSE \E random_indices \in { S \in SUBSET indices : Cardinality(S) = n } :
                  LET marked == [rnd.ff_pruned EXCEPT ![rnd.layer] = @ \cup random_indices]
                  IN  /\ rnd' = [rnd EXCEPT !.ff_pruned = marked, !.layer = @ + 1]
                      /\ run' = IF rnd.fresh_ff THEN run
                                ELSE [run EXCEPT !.ff_pruned = marked]
                      /\ pc' = pc
                      /\ err' = err
    /\ UNCHANGED << arg, ret, entry, cfg, c, opt, history, trace, pae, sap, data >>

\* line 502
prune_random_ff_delete ==
    /\ pc = "rnd_ff"
    /\ rnd.layer = cfg.n_layers
    /\ opt' = delete_ff_keys({ x \in FFUnits : x[2] \in rnd.ff_pruned[x[1]] })
    /\ trace' = Log("delete_ff_keys", "ff_pruned")
    /\ rnd' = [rnd EXCEPT !.layer = 0]
    /\ pc' = IF c.attn_frac # 0 THEN "rnd_attn" ELSE "rnd_return"
    /\ UNCHANGED << arg, ret, entry, cfg, c, err, history, run, pae, sap, data >>

\* lines 505-509
prune_random_attn_layer ==
    /\ pc = "rnd_attn"
    /\ rnd.layer < cfg.n_layers
    /\ LET n == n_to_prune(c.attn_frac, d_model)
           indices == unpruned(rnd.attn_pruned, rnd.layer, d_model)
       IN  IF n < 0
             THEN /\ Raise("ValueError: negative dimensions are not allowed")
                  /\ UNCHANGED << rnd, run >>
           ELSE IF n > Cardinality(indices)
             THEN /\ Raise("ValueError: cannot take a larger sample than population")
                  /\ UNCHANGED << rnd, run >>
           ELSE \E random_indices \in { S \in SUBSET indices : Cardinality(S) = n } :
                  LET marked == [rnd.attn_pruned EXCEPT ![rnd.layer] = @ \cup random_indices]
                  IN  /\ rnd' = [rnd EXCEPT !.attn_pruned = marked, !.layer = @ + 1]
                      /\ run' = IF rnd.fresh_attn THEN run
                                ELSE [run EXCEPT !.attn_pruned = marked]
                      /\ pc' = pc
                      /\ err' = err
    /\ UNCHANGED << arg, ret, entry, cfg, c, opt, history, trace, pae, sap, data >>

\* line 512
prune_random_attn_delete ==
    /\ pc = "rnd_attn"
    /\ rnd.layer = cfg.n_layers
    /\ opt' = delete_attn({ x \in Layers \X (0 .. (d_model - 1)) :
                              x[2] \in rnd.attn_pruned[x[1]] })
    /\ trace' = Log("delete_attn_pre_out", "attn_pruned")
    /\ rnd' = [rnd EXCEPT !.layer = 0]
    /\ pc' = "rnd_return"
    /\ UNCHANGED << arg, ret, entry, cfg, c, err, history, run, pae, sap, data >>

\* lines 514-517
data_out ==
    [ff_del |-> n_to_prune(c.ff_frac, cfg.d_mlp) * cfg.n_layers,
     attn_del |-> n_to_prune(c.attn_frac, d_model) * cfg.n_layers]

----------------------------------------------------------------------------
(* prune_random_and_evaluate *)

\* lines 543-544 (the return of prune_random, line 518) and 549-554
prune_random_and_evaluate_evaluate ==
    /\ pc = "rnd_return"
    /\ trace' = Log("evaluate_all", "focus")
    /\ pc' = "prae_package"
    /\ UNCHANGED << arg, ret, entry, cfg, c, err, opt, history, run, pae, sap, rnd, data >>

\* lines 560-567, and the assignment of the returned masks in lines 639-640
prune_random_and_evaluate_return ==
    /\ pc = "prae_package"
    /\ data' = [kind |-> "random", deletions |-> data_out,
                deletions_per_layer |->
                    [ff |-> [l \in Layers |-> Cardinality(rnd.ff_pruned[l])],
                     attn |-> [l \in Layers |-> Cardinality(rnd.attn_pruned[l])]],
                eval |-> TRUE]
    /\ run' = [run EXCEPT !.ff_pruned = rnd.ff_pruned,
                          !.attn_pruned = rnd.attn_pruned]
    /\ pc' = "run_add"
    /\ UNCHANGED << arg, ret, entry, cfg, c, err, opt, history, trace, pae, sap, rnd >>

----------------------------------------------------------------------------
(* run_pruning *)

\* lines 605, 644, 669: the iteration strategy
strategy ==
    IF c.ff_scoring = "random" /\ c.attn_scoring = "random" THEN "random"
    ELSE IF c.recalculate_activations THEN "recompute"
    ELSE "fixed"

\* lines 589-602: the optional pre-test row, then the branch on the strategy
run_pruning_pre_test ==
    /\ pc = "run_pre_test"
    /\ IF c.run_pre_test
         THEN /\ trace' = Log("evaluate_all", "focus")
              /\ history' = Append(history, [row |-> [kind |-> "pre_test", eval |-> TRUE],
                                             step |-> -1])
       ELSE UNCHANGED << trace, history >>
    /\ pc' = IF strategy = "random" THEN "run_rand_collect" ELSE "run_collect_focus"
    /\ UNCHANGED << arg, ret, entry, cfg, c, err, opt, run, pae, sap, rnd, data >>

\* lines 606-609
run_pruning_random_collect ==
    /\ pc = "run_rand_collect"
    /\ IF c.attn_offset_mode # "zero"
         THEN /\ trace' = Log("get_midlayer_activations", "focus")
              /\ run' = [run EXCEPT !.focus_out = "run"]
       ELSE UNCHANGED << trace, run >>
    /\ pc' = "run_rand_offsets"
    /\ UNCHANGED << arg, ret, entry, cfg, c, err, opt, history, pae, sap, rnd, data >>

\* a variant that pushes the offsets whatever the offset mode is
run_pruning_random_offsets_always ==
    /\ pc = "run_rand_offsets"
    /\ opt' = update_mask_offsets("attn_pre_out")
    /\ trace' = Log("update_mask_offsets", c.attn_offset_mode)
    /\ run' = [run EXCEPT !.i = 0, !.ff_pruned = NoneArr, !.attn_pruned = NoneArr]
    /\ pc' = "run_loop"
    /\ UNCHANGED << arg, ret, entry, cfg, c, err, history, pae, sap, rnd, data >>

\* lines 616-637: the offsets of the random baseline, then the loop's setup
run_pruning_random_offsets ==
    /\ pc = "run_rand_offsets"
    /\ IF c.attn_offset_mode \in {"peak", "mean"}
         THEN /\ opt' = update_mask_offsets("attn_pre_out")
              /\ trace' = Log("update_mask_offsets", c.attn_offset_mode)
       ELSE UNCHANGED << opt, trace >>
    /\ run' = [run EXCEPT !.i = 0, !.ff_pruned = NoneArr, !.attn_pruned = NoneArr]
    /\ pc' = "run_loop"
    /\ UNCHANGED << arg, ret, entry, cfg, c, err, history, pae, sap, rnd, data >>

\* lines 645-646 / 670-671
run_pruning_collect_focus ==
    /\ pc = "run_collect_focus"
    /\ trace' = Log("get_midlayer_activations", "focus")
    /\ run' = [run EXCEPT !.focus_out = "run"]
    /\ pc' = "run_collect_cripple"
    /\ UNCHANGED << arg, ret, entry, cfg, c, err, opt, history, pae, sap, rnd, data >>

\* lines 649-650 / 674-675
run_pruning_collect_cripple ==
    /\ pc = "run_collect_cripple"
    /\ trace' = Log("get_midlayer_activations", "cripple")
    /\ run' = [run EXCEPT !.cripple_out = "run"]
    /\ pc' = "run_offsets"
    /\ UNCHANGED << arg, ret, entry, cfg, c, err, opt, history, pae, sap, rnd, data >>

\* lines 652-663 / 677-685
run_pruning_offsets ==
    /\ pc = "run_offsets"
    /\ opt' = update_mask_offsets("attn_pre_out")
    /\ trace' = Log("update_mask_offsets", "mode")
    /\ run' = [run EXCEPT !.i = 0]
    /\ pc' = "run_loop"
    /\ UNCHANGED << arg, ret, entry, cfg, c, err, history, pae, sap, rnd, data >>

\* lines 638-640 / 664-665 / 686-687: the loop head and the iteration's call
run_pruning_iterate ==
    /\ pc = "run_loop"
    /\ run.i < c.n_steps
    /\ IF strategy = "random"
         THEN /\ pc' = "rnd_entry"
              /\ pae' = pae
       ELSE IF strategy = "recompute"
         THEN /\ pc' = "pae_validate"
              /\ pae' = PaeIdle
       ELSE /\ pc' = "pae_validate"
            /\ pae' = [PaeIdle EXCEPT !.focus_out = run.focus_out,
                                      !.cripple_out = run.cripple_out,
                                      !.iteration = run.i]
    /\ UNCHANGED << arg, ret, entry, cfg, c, err, opt, history, trace, run, sap, rnd, data >>

\* a variant that puts the new row first
run_pruning_add_first ==
    /\ pc = "run_add"
    /\ history' = << [row |-> data, step |-> run.i] >> \o history
    /\ run' = [run EXCEPT !.i = @ + 1]
    /\ pc' = "run_loop"
    /\ UNCHANGED << arg, ret, entry, cfg, c, err, opt, trace, pae, sap, rnd, data >>

\* lines 641 / 666 / 688: history.add(data); step records the iteration the
\* row was added in (-1 for the pre-test row)
run_pruning_add ==
    /\ pc = "run_add"
    /\ history' = Append(history, [row |-> data, step |-> run.i])
    /\ run' = [run EXCEPT !.i = @ + 1]
    /\ pc' = "run_loop"
    /\ UNCHANGED << arg, ret, entry, cfg, c, err, opt, trace, pae, sap, rnd, data >>

\* lines 690-695: history.history[-1] of an empty history is an IndexError;
\* the model and the history are locals, handed to the caller by the return
run_pruning_finish ==
    /\ pc = "run_loop"
    /\ run.i >= c.n_steps
    /\ IF history = << >>
         THEN /\ Raise("IndexError: list index out of range")
              /\ ret' = ret
       ELSE /\ pc' = "done"
            /\ err' = err
            /\ ret' = [opt |-> opt, history |-> history]
    /\ UNCHANGED << arg, entry, cfg, c, opt, history, trace, run, pae, sap, rnd, data >>

----------------------------------------------------------------------------
(* Inputs and the specification *)

\* the configurations a direct call of prune_and_evaluate or score_and_prune
\* is given; the fields they do not read are fixed
CallConfigs ==
    [ff_frac : Fracs, attn_frac : Fracs, attn_mode : AttnModes,
     recalculate_activations : BOOLEAN,
     ff_scoring : {"abs"}, attn_scoring : {"abs"}, attn_offset_mode : {"zero"},
     n_steps : {1}, run_pre_test : {FALSE},
     attn_prune_heads : BOOLEAN, do_attn_mean_offset : BOOLEAN]

\* the configurations run_pruning is given
RunConfigs ==
    [ff_frac : RunFracs, attn_frac : RunFracs, attn_mode : {"pre-out", "other"},
     recalculate_activations : BOOLEAN,
     ff_scoring : Scorings, attn_scoring : {"abs"}, attn_offset_mode : {"zero"},
     n_steps : 0 .. MaxSteps, run_pre_test : BOOLEAN,
     attn_prune_heads : {FALSE}, do_attn_mean_offset : {FALSE}]
    \cup
    [ff_frac : RunFracs, attn_frac : RunFracs, attn_mode : {"pre-out"},
     recalculate_activations : {FALSE},
     ff_scoring : {"random"}, attn_scoring : {"random"},
     attn_offset_mode : OffsetModes,
     n_steps : 0 .. MaxSteps, run_pre_test : BOOLEAN,
     attn_prune_heads : {FALSE}, do_attn_mean_offset : {FALSE}]

InitCommon ==
    /\ cfg \in Shapes
    /\ err = "none"
    /\ opt = [ff |-> {}, attn |-> {}, offsets |-> << >>]
    /\ history = << >>
    /\ trace = << >>
    /\ run = RunIdle
    /\ rnd = RndIdle
    /\ data = NoData
    /\ arg = "None"
    /\ ret = NoData

\* a call of run_pruning(c)
InitRun ==
    /\ entry = "run_pruning"
    /\ c \in RunConfigs
    /\ pc = "run_pre_test"
    /\ pae = PaeIdle
    /\ sap = SapIdle

\* a call of prune_and_evaluate(opt, c, focus_out, cripple_out, iteration)
InitPae ==
    /\ entry = "prune_and_evaluate"
    /\ c \in CallConfigs
    /\ pc = "pae_validate"
    /\ \E f \in {"None", "caller"}, k \in {"None", "caller"}, it \in -1 .. MaxSteps :
          pae = [focus_out |-> f, cripple_out |-> k, iteration |-> it, c |-> c]
    /\ sap = SapIdle

\* a call of score_and_prune(opt, focus, cripple, c)
InitSap ==
    /\ entry = "score_and_prune"
    /\ c \in { x \in CallConfigs : ~x.recalculate_activations }
    /\ pc = "sap_ff"
    /\ pae = PaeIdle
    /\ sap = [SapIdle EXCEPT !.focus = "caller", !.cripple = "caller"]

Init ==
    /\ InitCommon
    /\ InitRun \/ InitPae \/ InitSap

Next ==
    \/ prune_and_evaluate_validate
    \/ prune_and_evaluate_collect_focus
    \/ prune_and_evaluate_collect_cripple
    \/ prune_and_evaluate_rescale
    \/ prune_and_evaluate_call_score_and_prune
    \/ prune_and_evaluate_evaluate
    \/ prune_and_evaluate_return
    \/ score_and_prune_ff
    \/ score_and_prune_ff_delete
    \/ score_and_prune_attn
    \/ score_and_prune_attn_delete
    \/ score_and_prune_attn_delete_fails
    \/ score_and_prune_package
    \/ prune_random_entry
    \/ prune_random_ff_layer
    \/ prune_random_ff_delete
    \/ prune_random_attn_layer
    \/ prune_random_attn_delete
    \/ prune_random_and_evaluate_evaluate
    \/ prune_random_and_evaluate_return
    \/ run_pruning_pre_test
    \/ run_pruning_random_collect
    \/ run_pruning_random_offsets
    \/ run_pruning_collect_focus
    \/ run_pruning_collect_cripple
    \/ run_pruning_offsets
    \/ run_pruning_iterate
    \/ run_pruning_add
    \/ run_pruning_finish

Spec == Init /\ [][Next]_vars

----------------------------------------------------------------------------
(* The end-to-end scenario: one pruning iteration of a toy model with        *)
(* n_layers=2, d_mlp=8, n_heads=2, d_head=4, ff_frac=0.25 and attn_frac=0    *)

ToyShape == [n_layers |-> 2, d_mlp |-> 8, n_heads |-> 2, d_head |-> 4]

ToyConfigs ==
    { x \in CallConfigs : /\ x.ff_frac = 2
                          /\ x.attn_frac = 0
                          /\ ~x.recalculate_activations
                          /\ x.attn_mode = "pre-out"
                          /\ ~x.attn_prune_heads
                          /\ ~x.do_attn_mean_offset }

InitE2E ==
    /\ cfg = ToyShape
    /\ err = "none"
    /\ opt = [ff |-> {}, attn |-> {}, offsets |-> << >>]
    /\ history = << >>
    /\ trace = << >>
    /\ run = RunIdle
    /\ rnd = RndIdle
    /\ data = NoData
    /\ arg = "None"
    /\ ret = NoData
    /\ entry = "prune_and_evaluate"
    /\ c \in ToyConfigs
    /\ pc = "pae_validate"
    /\ pae = [focus_out |-> "caller", cripple_out |-> "caller", iteration |-> 0,
              c |-> c]
    /\ sap = SapIdle

NextE2E ==
    \/ prune_and_evaluate_validate
    \/ prune_and_evaluate_rescale
    \/ prune_and_evaluate_call_score_and_prune
    \/ prune_and_evaluate_evaluate
    \/ prune_and_evaluate_return
    \/ score_and_prune_ff
    \/ score_and_prune_ff_delete
    \/ score_and_prune_attn
    \/ score_and_prune_package

SpecE2E == InitE2E /\ [][NextE2E]_vars

----------------------------------------------------------------------------
(* The selector on its own: repeated selections on one FF score tensor       *)

SelScores == {0, 1, 2}
SelFracs == 0 .. One

IdleLocals ==
    /\ c \in { x \in CallConfigs : /\ x.ff_frac = 2 /\ x.attn_frac = 0
                                   /\ x.attn_mode = "pre-out"
                                   /\ ~x.recalculate_activations
                                   /\ ~x.attn_prune_heads
                                   /\ ~x.do_attn_mean_offset }
    /\ err = "none"
    /\ opt = [ff |-> {}, attn |-> {}, offsets |-> << >>]
    /\ history = << >>
    /\ trace = << >>
    /\ run = RunIdle
    /\ rnd = RndIdle
    /\ data = NoData
    /\ pae = PaeIdle
    /\ sap = SapIdle

\* line 402, twice on the same scores: get_top_frac(ff_scores, ff_frac)
get_top_frac_call ==
    /\ entry = "get_top_frac"
    /\ pc = "select"
    /\ \E frac \in SelFracs :
          LET sel == get_top_frac(FFUnits, arg.scores,
                                  [x \in FFUnits |-> FFIdx(x)], frac)
          IN  ret' = Append(ret, [frac |-> frac, criteria |-> sel.criteria,
                                  threshold |-> sel.threshold])
    /\ pc' = IF Len(ret) = 1 THEN "done" ELSE pc
    /\ UNCHANGED << arg, entry, cfg, c, err, opt, history, trace, run, pae, sap, rnd, data >>

\* lines 58 and 401-403 in iteration Len(ret) of the fixed-activations loop
\* (lines 686-687), the scoring function returning the same scores each time
fixed_scores_iteration ==
    /\ entry = "fixed_scores"
    /\ pc = "select"
    /\ LET it == Len(ret)
           frac == rescale(arg.frac, it)
           sel == get_top_frac(FFUnits, arg.scores,
                               [x \in FFUnits |-> FFIdx(x)], frac)
       IN  /\ ret' = Append(ret, [frac |-> frac, criteria |-> sel.criteria,
                                  threshold |-> sel.threshold])
           /\ pc' = IF it + 1 >= MaxSteps + 1 THEN "done" ELSE pc
    /\ UNCHANGED << arg, entry, cfg, c, err, opt, history, trace, run, pae, sap, rnd, data >>

InitSelect ==
    /\ cfg \in Shapes
    /\ IdleLocals
    /\ pc = "select"
    /\ ret = << >>
    /\ \/ /\ entry = "get_top_frac"
          /\ \E sc \in [FFUnits -> SelScores] : arg = [scores |-> sc]
       \/ /\ entry = "fixed_scores"
          /\ \E sc \in [FFUnits -> SelScores], f \in SelFracs \ {0} :
                arg = [scores |-> sc, frac |-> f]

NextSelect ==
    \/ get_top_frac_call
    \/ fixed_scores_iteration

SpecSelect == InitSelect /\ [][NextSelect]_vars

----------------------------------------------------------------------------
(* The offset estimators (lines 78-380), each called on its own on a sample  *)
(* tensor of shape (layers, neurons, observations).                          *)
(*                                                                           *)
(* Observations are integers and the arithmetic is exact: a result is the    *)
(* fraction num/den.  A histogram is kept as the bin index of every          *)
(* observation (-1 for an observation outside the range), which is all its   *)
(* argmax depends on.                                                        *)

PeakUnits == (0 .. 0) \X (0 .. 1)
PeakObs == 1 .. 3
PeakValues == {0, 1, 3}

bucket_bins == 100
dual_coarse_bins == 100
dual_fine_bins == 100
averaged_coarse_bins == 1000
averaged_fine_bins == 10000
smoothing_bins == 100
prior_bins == 1000
kde_grid == 1000

\* the grid points at which the density estimate may be found largest: the
\* density is not computed, and any of these points may come out
KdeGridPoints == {0, 333, kde_grid - 1}

Rat(n, d) == [num |-> n, den |-> d]

Max(S) == CHOOSE x \in S : \A y \in S : x >= y

min_val(xs) == Min({ xs[o] : o \in DOMAIN xs })
max_val(xs) == Max({ xs[o] : o \in DOMAIN xs })

\* the observations of a whole tensor, as one set of values
AllValues(A) == UNION { { A[u][o] : o \in DOMAIN A[u] } : u \in DOMAIN A }

\* torch.histc(xs, bins, min=lo, max=hi) on values in which 1.0 is written
\* one: equal bounds are replaced by the extremes of the data, and bounds
\* still equal are widened by 1.0 on each side; an element outside the bounds
\* is ignored; the upper bound belongs to the last bin.
histc(xs, bins, lo, hi, one) ==
    LET l1 == IF lo = hi THEN min_val(xs) ELSE lo
        h1 == IF lo = hi THEN max_val(xs) ELSE hi
        l == IF l1 = h1 THEN l1 - one ELSE l1
        h == IF l1 = h1 THEN h1 + one ELSE h1
    IN  [o \in DOMAIN xs |->
           IF xs[o] < l \/ xs[o] > h THEN -1
           ELSE MinOf(bins - 1, ((xs[o] - l) * bins) \div (h - l))]

\* the count of bin b
Count(hist, b) == Cardinality({ o \in DOMAIN hist : hist[o] = b })

\* the first index at which weight is largest, among the candidate bins
\* (every bin outside them weighs no more than an earlier candidate)
FirstLargest(cands, weight) ==
    IF cands = {} THEN 0
    ELSE LET top == Max({ weight[b] : b \in cands })
         IN  Min({ b \in cands : weight[b] = top })

\* hist.argmax()
argmax(hist) ==
    LET filled == { hist[o] : o \in DOMAIN hist } \ {-1}
    IN  FirstLargest(filled, [b \in filled |-> Count(hist, b)])

\* lines 78-100: torch.mean(activations, dim=-1)
get_mean_offsets(A) ==
    LET RECURSIVE Sum(_, _)
        Sum(xs, n) == IF n = 0 THEN 0 ELSE xs[n] + Sum(xs, n - 1)
    IN  [u \in DOMAIN A |-> Rat(Sum(A[u], Len(A[u])), Len(A[u]))]

\* lines 357-380: torch.mode(activations, dim=-1): the most frequent value,
\* the lowest of them
get_mode_offsets(A) ==
    [u \in DOMAIN A |->
       LET xs == A[u]
           vals == { xs[o] : o \in DOMAIN xs }
           n(v) == Cardinality({ o \in DOMAIN xs : xs[o] = v })
           top == Max({ n(v) : v \in vals })
       IN  Rat(Min({ v \in vals : n(v) = top }), 1)]

\* lines 102-142: the centre of the fullest of bucket_bins bins between the
\* unit's own minimum and maximum
get_bucket_peaks(A) ==
    [u \in DOMAIN A |->
       LET xs == A[u]
           mn == min_val(xs)
           mx == max_val(xs)
           peak_bin == argmax(histc(xs, bucket_bins, mn, mx, 1))
       IN  Rat(2 * bucket_bins * mn + (mx - mn) * (2 * peak_bin + 1),
               2 * bucket_bins)]

\* lines 144-185: a coarse histogram, then a fine one inside the fullest
\* coarse bin; values are written in units of 1/dual_coarse_bins
get_dual_bucket_peaks(A) ==
    [u \in DOMAIN A |->
       LET xs == A[u]
           mn == min_val(xs)
           mx == max_val(xs)
           coarse_peak_bin == argmax(histc(xs, dual_coarse_bins, mn, mx, 1))
           coarse_peak_min == dual_coarse_bins * mn + (mx - mn) * coarse_peak_bin
           coarse_peak_max == coarse_peak_min + (mx - mn)
           scaled == [o \in DOMAIN xs |-> dual_coarse_bins * xs[o]]
           fine_peak_bin == argmax(histc(scaled, dual_fine_bins, coarse_peak_min,
                                         coarse_peak_max, dual_coarse_bins))
       IN  Rat(2 * dual_fine_bins * coarse_peak_min
                  + (mx - mn) * (2 * fine_peak_bin + 1),
               2 * dual_fine_bins * dual_coarse_bins)]

\* lines 187-236: the fullest bin of the average of a fine histogram and a
\* coarse one repeated to the fine resolution
get_averaged_bucket_peaks(A) ==
    [u \in DOMAIN A |->
       LET xs == A[u]
           mn == min_val(xs)
           mx == max_val(xs)
           coarse_hist == histc(xs, averaged_coarse_bins, mn, mx, 1)
           fine_hist == histc(xs, averaged_fine_bins, mn, mx, 1)
           scale_factor == averaged_fine_bins \div averaged_coarse_bins
           averaged_hist(b) == Count(coarse_hist, b \div scale_factor)
                                  + Count(fine_hist, b)
           cands == { fine_hist[o] : o \in DOMAIN xs }
                       \cup { coarse_hist[o] * scale_factor : o \in DOMAIN xs }
           peak_bin == FirstLargest(cands, [b \in cands |-> averaged_hist(b)])
       IN  Rat(2 * averaged_fine_bins * mn + (mx - mn) * (2 * peak_bin + 1),
               2 * averaged_fine_bins)]

\* lines 242-262 with kernel_size=5, sigma=1: the kernel exp(-x^2/2) at
\* linspace(-3, 2, 5), in ten-thousandths; replicate padding
gaussian_kernel == << 111, 2163, 8825, 7548, 1353 >>

apply_gaussian_smoothing(hist, bins) ==
    LET pad_size == Len(gaussian_kernel) \div 2
        padded(i) == Count(hist, IF i < 0 THEN 0
                                 ELSE IF i > bins - 1 THEN bins - 1 ELSE i)
    IN  [b \in 0 .. (bins - 1) |->
           gaussian_kernel[1] * padded(b - pad_size)
         + gaussian_kernel[2] * padded(b - pad_size + 1)
         + gaussian_kernel[3] * padded(b - pad_size + 2)
         + gaussian_kernel[4] * padded(b - pad_size + 3)
         + gaussian_kernel[5] * padded(b - pad_size + 4)]

\* lines 264-285
get_bucket_peaks_averaged_with_smoothing(A) ==
    [u \in DOMAIN A |->
       LET xs == A[u]
           mn == min_val(xs)
           mx == max_val(xs)
           fine_hist == histc(xs, smoothing_bins, mn, mx, 1)
           smoothed_hist == apply_gaussian_smoothing(fine_hist, smoothing_bins)
           peak_bin == FirstLargest(0 .. (smoothing_bins - 1), smoothed_hist)
       IN  Rat(2 * smoothing_bins * mn + (mx - mn) * (2 * peak_bin + 1),
               2 * smoothing_bins)]

\* lines 287-289
get_global_min_max(A) == << Min(AllValues(A)), Max(AllValues(A)) >>

\* lines 296-317: the unit's own histogram on the bins of the whole tensor
estimate_peaks_with_layer_prior(A) ==
    LET global_min == get_global_min_max(A)[1]
        global_max == get_global_min_max(A)[2]
    IN  [u \in DOMAIN A |->
           LET neuron_hist == histc(A[u], prior_bins, global_min, global_max, 1)
               peak_bin == argmax(neuron_hist)
           IN  Rat(2 * prior_bins * global_min
                      + (global_max - global_min) * (2 * peak_bin + 1),
                   2 * prior_bins)]

\* line 342: stats.gaussian_kde(activations_np) needs a non-singular
\* covariance: it raises on observations that are all equal
gaussian_kde_raises(xs) == min_val(xs) = max_val(xs)

\* lines 345-349: the grid point of the largest density
kde_peak(xs, g) ==
    Rat((kde_grid - 1) * min_val(xs) + (max_val(xs) - min_val(xs)) * g,
        kde_grid - 1)

Estimators ==
    {"get_mean_offsets", "get_mode_offsets", "get_bucket_peaks",
     "get_dual_bucket_peaks", "get_averaged_bucket_peaks",
     "get_bucket_peaks_averaged_with_smoothing",
     "estimate_peaks_with_layer_prior", "get_kde_peaks"}

EstimatorReturns(peaks) ==
    /\ ret' = [peaks |-> peaks]
    /\ pc' = "done"
    /\ UNCHANGED << arg, entry, cfg, c, err, opt, history, trace, run, pae, sap, rnd, data >>

get_mean_offsets_call ==
    /\ entry = "get_mean_offsets" /\ pc = "estimate"
    /\ EstimatorReturns(get_mean_offsets(arg.activations))

get_mode_offsets_call ==
    /\ entry = "get_mode_offsets" /\ pc = "estimate"
    /\ EstimatorReturns(get_mode_offsets(arg.activations))

get_bucket_peaks_call ==
    /\ entry = "get_bucket_peaks" /\ pc = "estimate"
    /\ EstimatorReturns(get_bucket_peaks(arg.activations))

get_dual_bucket_peaks_call ==
    /\ entry = "get_dual_bucket_peaks" /\ pc = "estimate"
    /\ EstimatorReturns(get_dual_bucket_peaks(arg.activations))

get_averaged_bucket_peaks_call ==
    /\ entry = "get_averaged_bucket_peaks" /\ pc = "estimate"
    /\ EstimatorReturns(get_averaged_bucket_peaks(arg.activations))

get_bucket_peaks_averaged_with_smoothing_call ==
    /\ entry = "get_bucket_peaks_averaged_with_smoothing" /\ pc = "estimate"
    /\ EstimatorReturns(get_bucket_peaks_averaged_with_smoothing(arg.activations))

estimate_peaks_with_layer_prior_call ==
    /\ entry = "estimate_peaks_with_layer_prior" /\ pc = "estimate"
    /\ EstimatorReturns(estimate_peaks_with_layer_prior(arg.activations))

\* lines 322-355
get_kde_peaks_call ==
    /\ entry = "get_kde_peaks" /\ pc = "estimate"
    /\ IF \E u \in PeakUnits : gaussian_kde_raises(arg.activations[u])
         THEN /\ Raise("LinAlgError: singular covariance")
              /\ UNCHANGED << arg, ret, entry, cfg, c, opt, history, trace, run,
                              pae, sap, rnd, data >>
       ELSE /\ err' = err
            /\ \E g \in [PeakUnits -> KdeGridPoints] :
                  EstimatorReturns([u \in PeakUnits |->
                                      kde_peak(arg.activations[u], g[u])])

InitPeaks ==
    /\ cfg \in Shapes
    /\ IdleLocals
    /\ entry \in Estimators
    /\ pc = "estimate"
    /\ ret = NoData
    /\ \E A \in [PeakUnits -> [PeakObs -> PeakValues]] : arg = [activations |-> A]

NextPeaks ==
    \/ get_mean_offsets_call
    \/ get_mode_offsets_call
    \/ get_bucket_peaks_call
    \/ get_dual_bucket_peaks_call
    \/ get_averaged_bucket_peaks_call
    \/ get_bucket_peaks_averaged_with_smoothing_call
    \/ estimate_peaks_with_layer_prior_call
    \/ get_kde_peaks_call

SpecPeaks == InitPeaks /\ [][NextPeaks]_vars

----------------------------------------------------------------------------
(* prune_random called on its own *)

\* the fractions of a direct call travel in c, as in line 543; the other
\* fields are not read
RandomCallConfigs ==
    { x \in RunConfigs : /\ x.ff_scoring = "random" /\ x.attn_scoring = "random"
                         /\ x.attn_offset_mode = "zero"
                         /\ x.n_steps = 1 /\ ~x.run_pre_test }

\* the masks a caller may pass (lines 475-476): None, or a boolean array
\* with one row per layer
MasksOver(units) == {NoneArr} \cup [Layers -> SUBSET (0 .. (units - 1))]

\* the units a mask marks, as index pairs
Marked(mask) ==
    IF mask = NoneArr THEN {}
    ELSE { x \in Layers \X (0 .. Max({cfg.d_mlp, d_model}) - 1) :
             x[2] \in mask[x[1]] }

\* line 518: return ff_pruned, attn_pruned, data_out
prune_random_return ==
    /\ pc = "rnd_return"
    /\ entry = "prune_random"
    /\ ret' = [ff_pruned |-> rnd.ff_pruned, attn_pruned |-> rnd.attn_pruned,
                data_out |-> data_out]
    /\ pc' = "done"
    /\ UNCHANGED << arg, entry, cfg, c, err, opt, history, trace, run, pae, sap, rnd, data >>

\* a call prune_random(opt, ff_frac, attn_frac, ff_pruned, attn_pruned): the
\* caller's masks are held in run, arg keeps their values at the time of
\* the call, and the model has had exactly the marked units deleted
InitRandom ==
    /\ cfg \in Shapes
    /\ entry = "prune_random"
    /\ c \in RandomCallConfigs
    /\ pc = "rnd_entry"
    /\ \E f \in MasksOver(cfg.d_mlp), a \in MasksOver(d_model) :
          /\ run = [RunIdle EXCEPT !.ff_pruned = f, !.attn_pruned = a]
          /\ arg = [ff_pruned |-> f, attn_pruned |-> a]
          /\ opt = [ff |-> Marked(f), attn |-> Marked(a), offsets |-> << >>]
    /\ err = "none"
    /\ history = << >>
    /\ trace = << >>
    /\ rnd = RndIdle
    /\ data = NoData
    /\ ret = NoData
    /\ pae = PaeIdle
    /\ sap = SapIdle

NextRandom ==
    \/ prune_random_entry
    \/ prune_random_ff_layer
    \/ prune_random_ff_delete
    \/ prune_random_attn_layer
    \/ prune_random_attn_delete
    \/ prune_random_return

SpecRandom == InitRandom /\ [][NextRandom]_vars

----------------------------------------------------------------------------
(* Properties *)

Pristine == [ff |-> {}, attn |-> {}, offsets |-> << >>]

DeleteOps == {"delete_ff_keys", "delete_attn_pre_out", "delete_attn_values"}

\* the positions of the trace holding one of the given calls
Calls(ops) == { k \in 1 .. Len(trace) : trace[k].op \in ops }

NothingToPrune == "ValueError: must prune at least one of FF or Attention"
BadAttnMode == "NotImplementedError: attn_mode"
MissingIteration == "TypeError: NoneType + int"
MissingActivations == "AssertionError: must provide focus_out and cripple_out"
InsufficientCandidates == "ValueError: cannot take a larger sample than population"

\* the positions of prune_and_evaluate after its validation, and those of
\* score_and_prune
AfterValidate == {"pae_collect_focus", "pae_collect_cripple", "pae_rescale",
                  "pae_call_sap", "pae_evaluate", "pae_return"}
InScoreAndPrune == {"sap_ff", "sap_ff_delete", "sap_attn", "sap_attn_delete",
                    "sap_package"}

\* C1: with ff_frac <= 0 and attn_frac <= 0, prune_and_evaluate does nothing
\* but raise the nothing-to-prune error, whatever the other arguments are: it
\* never gets past its validation, and when called directly it ends with
\* that error having called no collaborator and left the model untouched.
C1_NothingToPruneFails ==
    (entry \in {"prune_and_evaluate", "run_pruning"}
        /\ c.ff_frac <= 0 /\ c.attn_frac <= 0)
    => /\ pc \notin AfterValidate \cup InScoreAndPrune
       /\ entry = "prune_and_evaluate"
            => /\ pc \in {"pae_validate", "raised"}
               /\ pc = "raised" => /\ err = NothingToPrune
                                   /\ trace = << >>
                                   /\ opt = Pristine

\* C1 witness: the error is raised for a negative ff_frac, a zero attn_frac,
\* recomputation off and every other argument missing
C1_Witness ==
    /\ entry = "prune_and_evaluate"
    /\ pc = "raised" /\ err = NothingToPrune
    /\ c.ff_frac < 0 /\ c.attn_frac = 0
    /\ ~c.recalculate_activations
    /\ pae.iteration = -1 /\ pae.focus_out = "None" /\ pae.cripple_out = "None"

\* C2: a direct call with attn_frac > 0 and an unrecognized attention mode
\* ends in the attention-mode error at validation, whatever ff_frac is; with
\* attn_frac <= 0 and ff_frac > 0 the attention-mode error is never raised.
C2_AttnModeChecked ==
    entry = "prune_and_evaluate"
    => /\ (c.attn_frac > 0 /\ c.attn_mode \notin {"pre-out", "value"})
            => /\ pc \in {"pae_validate", "raised"}
               /\ pc = "raised" => err = BadAttnMode /\ trace = << >>
       /\ (c.attn_frac <= 0 /\ c.ff_frac > 0) => err # BadAttnMode
       /\ (c.attn_frac > 0 /\ c.attn_mode \in {"pre-out", "value"})
            => err # BadAttnMode

\* C2 witness: the attention-mode error with ff_frac > 0
C2_Witness ==
    /\ entry = "prune_and_evaluate"
    /\ pc = "raised" /\ err = BadAttnMode
    /\ c.ff_frac > 0 /\ c.attn_frac > 0 /\ c.attn_mode = "other"

\* every missing argument ends the call in an error when recomputation is off
MissingArgumentsFail ==
    (entry = "prune_and_evaluate" /\ ~c.recalculate_activations
        /\ (pae.iteration = -1 \/ pae.focus_out = "None" \/ pae.cripple_out = "None"))
    => pc \in {"pae_validate", "pae_rescale", "raised"}

\* C3: whenever prune_and_evaluate ends in a configuration error (nothing to
\* prune, invalid attention mode, or recomputation off with focus_out,
\* cripple_out or iteration missing) no delete operation has been called and
\* no unit of the model has been removed; and each of the three missing
\* arguments does end the call in an error.
C3_ConfigErrorsBeforeMutation ==
    /\ (entry \in {"prune_and_evaluate", "run_pruning"}
          /\ pc = "raised"
          /\ err \in {NothingToPrune, BadAttnMode, MissingIteration, MissingActivations})
       => /\ Calls(DeleteOps) = {}
          /\ opt.ff = {} /\ opt.attn = {}
          /\ entry = "prune_and_evaluate" => opt = Pristine
    /\ MissingArgumentsFail

\* C3 witness: the missing-activations error, raised after the rescaling
C3_Witness ==
    /\ entry = "prune_and_evaluate"
    /\ pc = "raised" /\ err = MissingActivations
    /\ c.ff_frac > 0 /\ c.attn_frac > 0
    /\ pae.iteration = 1 /\ pae.focus_out = "caller" /\ pae.cripple_out = "None"

\* the fractions score_and_prune is given, in the order of the calls of the
\* selector on the FF scores
AppliedFF == [k \in 1 .. Cardinality(Calls({"get_top_frac_ff"})) |->
                LET ks == Calls({"get_top_frac_ff"})
                    at == CHOOSE j \in ks : Cardinality({ m \in ks : m <= j }) = k
                IN  trace[at].arg]

\* C4: inside a prune_and_evaluate call with recomputation off and iteration
\* index i, score_and_prune is given min(1, ff_frac*(i+1)) and
\* min(1, attn_frac*(i+1)) of the caller's fractions, and the fraction logged
\* at the selection is that one; with recomputation on it is given the
\* caller's fractions; over the iterations of the fixed-activations loop the
\* fractions applied to FF selection never decrease and never exceed 1.
C4_RescaledFractions ==
    /\ (entry \in {"prune_and_evaluate", "run_pruning"} /\ pc \in InScoreAndPrune)
         => IF c.recalculate_activations
              THEN /\ sap.pruning_config.ff_frac = c.ff_frac
                   /\ sap.pruning_config.attn_frac = c.attn_frac
              ELSE LET n == pae.iteration + 1
                   IN  /\ sap.pruning_config.ff_frac =
                            (IF c.ff_frac * n < One THEN c.ff_frac * n ELSE One)
                       /\ sap.pruning_config.attn_frac =
                            (IF c.attn_frac * n < One THEN c.attn_frac * n ELSE One)
                       /\ sap.pruning_config.ff_frac <= One
                       /\ sap.pruning_config.attn_frac <= One
    /\ (entry \in {"prune_and_evaluate", "run_pruning"} /\ pc = "sap_ff_delete")
         => trace[Len(trace)].arg = sap.pruning_config.ff_frac
    /\ (entry = "run_pruning" /\ ~c.recalculate_activations)
         => \A j, k \in DOMAIN AppliedFF :
               j <= k => /\ AppliedFF[j] <= AppliedFF[k]
                         /\ AppliedFF[k] <= One
                         /\ AppliedFF[k] =
                              (IF c.ff_frac * k < One THEN c.ff_frac * k ELSE One)

\* C4 witness: a quarter rescaled to three quarters at iteration index 2
C4_Witness ==
    /\ entry = "prune_and_evaluate"
    /\ ~c.recalculate_activations
    /\ pc = "sap_ff_delete"
    /\ c.ff_frac = 2 /\ pae.iteration = 2
    /\ sap.pruning_config.ff_frac = 6
    /\ trace[Len(trace)].arg = 6


Random == entry = "run_pruning" /\ strategy = "random"

\* floor(frac * units) of a non-negative fraction
Floor(frac, units) == (frac * units) \div One

\* C5: in the random baseline, where every call of prune_random receives the
\* masks the previous call returned: a unit once marked stays marked, every
\* pass over a layer marks exactly n_to_prune units that were not marked
\* before, and when the k-th call has returned every layer holds exactly
\* k * n_to_prune marked units in each pruned group, all of them deleted in
\* the model.
C5_RandomCumulative ==
    /\ [](Random /\ pc = "run_add"
            => /\ c.ff_frac # 0 =>
                    \A l \in Layers :
                       /\ Cardinality(run.ff_pruned[l]) =
                             (run.i + 1) * Floor(c.ff_frac, cfg.d_mlp)
                       /\ \A u \in run.ff_pruned[l] : << l, u >> \in opt.ff
               /\ c.attn_frac # 0 =>
                    \A l \in Layers :
                       /\ Cardinality(run.attn_pruned[l]) =
                             (run.i + 1) * Floor(c.attn_frac, d_model)
                       /\ \A u \in run.attn_pruned[l] : << l, u >> \in opt.attn)
    /\ [][Random /\ pc \in {"rnd_ff", "rnd_attn"} /\ pc' # "raised"
            => \A l \in Layers :
                  /\ rnd.ff_pruned[l] \subseteq rnd.ff_pruned'[l]
                  /\ rnd.attn_pruned[l] \subseteq rnd.attn_pruned'[l]
                  /\ (pc = "rnd_ff" /\ l = rnd.layer /\ rnd'.layer = l + 1)
                       => Cardinality(rnd.ff_pruned'[l] \ rnd.ff_pruned[l])
                             = Floor(c.ff_frac, cfg.d_mlp)
                  /\ (pc = "rnd_attn" /\ l = rnd.layer /\ rnd'.layer = l + 1)
                       => Cardinality(rnd.attn_pruned'[l] \ rnd.attn_pruned[l])
                             = Floor(c.attn_frac, d_model)]_vars
    /\ [][Random /\ run.ff_pruned # NoneArr /\ run'.ff_pruned # NoneArr
            => \A l \in Layers : run.ff_pruned[l] \subseteq run'.ff_pruned[l]]_vars
    /\ [][Random /\ run.attn_pruned # NoneArr /\ run'.attn_pruned # NoneArr
            => \A l \in Layers : run.attn_pruned[l] \subseteq run'.attn_pruned[l]]_vars

\* C5 witness: the second call has returned, having marked one more FF unit
\* and one more attention unit in every layer
C5_Witness ==
    /\ Random /\ pc = "run_add" /\ run.i = 1
    /\ c.ff_frac = 4 /\ c.attn_frac = 4
    /\ \A l \in Layers : Cardinality(run.ff_pruned[l]) = 2
    /\ \A l \in Layers : Cardinality(run.attn_pruned[l]) = 2

\* C6: a pass of prune_random over a layer either fails with the
\* insufficient-candidates error, exactly when floor(frac * units_per_layer)
\* exceeds the number of unmarked units of that layer, or marks exactly that
\* many units, all of them unmarked before, and leaves the other layers
\* alone; units_per_layer is d_mlp for FF and d_model for attention.
C6_RandomDraw ==
    [][(Random /\ pc \in {"rnd_ff", "rnd_attn"} /\ rnd.layer < cfg.n_layers)
         => LET ff == pc = "rnd_ff"
                units == IF ff THEN cfg.d_mlp ELSE d_model
                frac == IF ff THEN c.ff_frac ELSE c.attn_frac
                old == IF ff THEN rnd.ff_pruned ELSE rnd.attn_pruned
                new == IF ff THEN rnd.ff_pruned' ELSE rnd.attn_pruned'
                free == (0 .. (units - 1)) \ old[rnd.layer]
            IN  IF Floor(frac, units) > Cardinality(free)
                  THEN pc' = "raised" /\ err' = InsufficientCandidates
                  ELSE /\ pc' # "raised" /\ err' = "none"
                       /\ new[rnd.layer] \ old[rnd.layer] \subseteq free
                       /\ Cardinality(new[rnd.layer] \ old[rnd.layer])
                             = Floor(frac, units)
                       /\ old[rnd.layer] \subseteq new[rnd.layer]
                       /\ \A l \in Layers \ {rnd.layer} : new[l] = old[l]]_vars

\* C6 witness: the second call fails on the attention units (none is left,
\* two are asked for) after its FF draws went through
C6_Witness ==
    /\ Random /\ pc = "raised" /\ err = InsufficientCandidates
    /\ run.i = 1 /\ c.ff_frac = 4 /\ c.attn_frac = 8
    /\ \A l \in Layers : Cardinality(rnd.ff_pruned[l]) = 2
    /\ \A l \in Layers : Cardinality(rnd.attn_pruned[l]) = d_model

\* C7: a random selection asking for more unmarked units than a layer holds
\* is not fatal to the run: run_pruning does not end in that error.
C7_ExhaustionNotFatal ==
    (Random /\ pc = "raised") => err # InsufficientCandidates

PreLoop == {"run_pre_test", "run_rand_collect", "run_rand_offsets",
            "run_collect_focus", "run_collect_cripple", "run_offsets"}

Pushes == Calls({"update_mask_offsets"})

\* C8 as stated: in every run, once the loop is reached, the offsets have
\* been pushed exactly once.
C8_PushedExactlyOnce ==
    (entry = "run_pruning" /\ pc \notin PreLoop) => Cardinality(Pushes) = 1

\* C8 (amended): in every run the attention offsets are pushed at most once,
\* to 'attn_pre_out', before the first delete operation and never inside the
\* loop; they are pushed exactly once in the recompute and fixed-activations
\* strategies and in the random baseline with offset mode 'mean' or 'peak',
\* and never in the random baseline with any other offset mode.
C8_OffsetsPushedBeforeLoop ==
    entry = "run_pruning"
    => /\ Cardinality(Pushes) <= 1
       /\ Len(opt.offsets) = Cardinality(Pushes)
       /\ \A k \in 1 .. Len(opt.offsets) : opt.offsets[k] = "attn_pre_out"
       /\ \A p \in Pushes, d \in Calls(DeleteOps) : p < d
       /\ pc \in PreLoop => Calls(DeleteOps) = {}
       /\ pc \notin PreLoop
            => Cardinality(Pushes) =
                 (IF c.ff_scoring = "random" /\ c.attn_scoring = "random"
                     /\ c.attn_offset_mode \notin {"mean", "peak"}
                    THEN 0 ELSE 1)

\* C8 witness: a completed random-baseline run with offset mode 'zero' that
\* deleted units and never pushed an offset
C8_Witness ==
    /\ Random /\ pc = "done" /\ c.attn_offset_mode = "zero"
    /\ Calls(DeleteOps) # {} /\ Pushes = {} /\ opt.offsets = << >>

\* C9: the history only grows at its end; the pre-test row, when asked for,
\* is row zero and is added while the model is untouched; a completed run
\* holds one row per iteration, in iteration order, after the pre-test row.
C9_HistoryAppendOnly ==
    /\ [](entry = "run_pruning"
            => /\ (c.run_pre_test /\ pc # "run_pre_test")
                    => /\ Len(history) >= 1
                       /\ history[1].row.kind = "pre_test"
               /\ \A k \in 1 .. Len(history) :
                     /\ history[k].step = k - 1 - (IF c.run_pre_test THEN 1 ELSE 0)
                     /\ history[k].row.kind = "pre_test"
                          <=> (c.run_pre_test /\ k = 1)
               /\ pc = "done"
                    => Len(history) = c.n_steps + (IF c.run_pre_test THEN 1 ELSE 0))
    /\ [][entry = "run_pruning"
            => /\ \/ history' = history
                  \/ /\ Len(history') = Len(history) + 1
                     /\ SubSeq(history', 1, Len(history)) = history
               /\ (pc = "run_pre_test" /\ history' # history)
                     => /\ opt = Pristine /\ opt' = Pristine
                        /\ Calls(DeleteOps \cup {"update_mask_offsets"}) = {}]_vars

\* C9 witness: a completed scored run of two iterations with a pre-test row
C9_Witness ==
    /\ entry = "run_pruning" /\ pc = "done" /\ strategy = "fixed"
    /\ c.run_pre_test /\ c.n_steps = 2
    /\ Len(history) = 3
    /\ history[1].row.kind = "pre_test" /\ history[3].row.kind = "prune"

FFRemoved(l) == Cardinality({ x \in opt.ff : x[1] = l })

Returned == {"pae_evaluate", "pae_return", "done"}

\* C10 as stated: the toy iteration removes exactly 2 FF units in each layer
\* for any FF score tensor.
C10_TwoPerLayer ==
    pc \in Returned => \A l \in Layers : FFRemoved(l) = 2

\* C10 (amended): the toy iteration removes exactly 4 FF units in total for
\* any FF score tensor, split between the two layers as the scores rank them
\* (the per-layer counts of the row add up to 4 and are the numbers removed
\* per layer), calls no attention delete operation, removes no attention
\* unit, and returns ff_del = 4 and attn_del = 0.
C10_FourInTotal ==
    /\ cfg = ToyShape /\ c.ff_frac = 2 /\ c.attn_frac = 0
    /\ pc # "sap_attn_delete"
    /\ Calls({"delete_attn_pre_out", "delete_attn_values"}) = {}
    /\ opt.attn = {}
    /\ pc \in Returned
         => /\ Cardinality(opt.ff) = 4
            /\ data.deletions.ff_del = 4
            /\ data.deletions.attn_del = 0
            /\ data.deletions_per_layer.ff[0] + data.deletions_per_layer.ff[1] = 4
            /\ \A l \in Layers : data.deletions_per_layer.ff[l] = FFRemoved(l)
            /\ data.deletions_per_layer.attn = << >>
            /\ Cardinality(Calls({"delete_ff_keys"})) = 1

\* C10 witness: the call returned having removed three units of layer 0 and
\* one of layer 1
C10_Witness ==
    /\ pc = "done"
    /\ FFRemoved(0) = 3 /\ FFRemoved(1) = 1
    /\ data.deletions.ff_del = 4 /\ data.deletions.attn_del = 0


\* C11: on one score tensor, the mask selected for a fraction is contained in
\* the mask selected for any larger fraction, units tied at the threshold
\* included, and the same fraction always selects the same mask; and over the
\* iterations of the fixed-activations loop on unchanged scores, the FF mask
\* of an iteration contains the masks of all earlier iterations.
C11_SelectionMonotonic ==
    entry \in {"get_top_frac", "fixed_scores"}
    => \A i, j \in DOMAIN ret :
          /\ (entry = "get_top_frac" /\ ret[i].frac < ret[j].frac)
                => ret[i].criteria \subseteq ret[j].criteria
          /\ (entry = "get_top_frac" /\ ret[i].frac = ret[j].frac)
                => ret[i].criteria = ret[j].criteria
          /\ (entry = "fixed_scores" /\ i < j)
                => /\ ret[i].frac <= ret[j].frac
                   /\ ret[i].criteria \subseteq ret[j].criteria

\* C11 witness: two selections with the same threshold score, units tied at
\* it, the larger fraction selecting strictly more of them
C11_Witness ==
    /\ entry = "get_top_frac" /\ pc = "done"
    /\ ret[1].frac < ret[2].frac
    /\ ret[1].criteria # {} /\ ret[1].criteria # ret[2].criteria
    /\ ret[1].threshold = ret[2].threshold
    /\ \E x \in FFUnits \ ret[2].criteria : arg.scores[x] = ret[2].threshold


\* the units whose observations are all equal
ConstantUnits == { u \in PeakUnits : min_val(arg.activations[u]) = max_val(arg.activations[u]) }

\* a call of one of the given estimators on a tensor with a constant unit
\* returns, and returns the constant for that unit
ExactOnConstantUnits(fns) ==
    (entry \in fns /\ pc # "estimate" /\ ConstantUnits # {})
    => /\ pc = "done"
       /\ \A u \in ConstantUnits :
             ret.peaks[u].num = arg.activations[u][1] * ret.peaks[u].den

\* C12: each of the eight estimators, called on a sample tensor in which some
\* unit's observations all equal a constant k, returns without raising, and
\* returns exactly k for that unit.
C12_ConstantUnitGivesConstant ==
    ExactOnConstantUnits(Estimators)


ScoreOps == {"ff_scoring_fn", "attn_scoring_fn"}

IsCollect(k, which) ==
    k \in 1 .. Len(trace) /\ trace[k].op = "get_midlayer_activations"
                          /\ trace[k].arg = which

\* the scoring calls that open an iteration: no scoring or delete call lies
\* between them and the evaluation that closed the iteration before
FirstScorings ==
    { s \in Calls(ScoreOps) :
        \A j \in 1 .. (s - 1) :
           trace[j].op \in ScoreOps \cup DeleteOps
           => \E e \in (j + 1) .. (s - 1) : trace[e].op = "evaluate_all" }

Recompute ==
    /\ c.recalculate_activations
    /\ \/ entry = "prune_and_evaluate"
       \/ entry = "run_pruning" /\ strategy = "recompute"

\* C13: with recomputation on, in a direct call and in every iteration of the
\* recompute-each-iteration loop, the focus and then the cripple activations
\* are collected right before the first scoring call of the iteration, so
\* after every delete operation of the iteration before and ahead of every
\* scoring and delete operation of this one; scoring is given the summaries
\* just collected, never those the caller or run_pruning held; a completed
\* run has collected twice per iteration on top of its two collections for
\* the offsets.
C13_RecollectedEachIteration ==
    Recompute
    => /\ \A s \in FirstScorings : IsCollect(s - 2, "focus") /\ IsCollect(s - 1, "cripple")
       /\ \A d \in Calls(DeleteOps) :
             \E s \in FirstScorings :
                /\ s < d
                /\ \A e \in s .. d : trace[e].op # "evaluate_all"
       /\ \A s \in Calls(ScoreOps) : trace[s].arg = "fresh"
       /\ pc \in InScoreAndPrune => sap.focus = "fresh" /\ sap.cripple = "fresh"
       /\ (entry = "run_pruning" /\ pc = "done")
            => Cardinality(Calls({"get_midlayer_activations"})) = 2 + 2 * c.n_steps

\* C13 witness: a completed recompute run of two iterations pruning both
\* kinds: six collections, four deletes, the third collection after the
\* first iteration's deletes
C13_Witness ==
    /\ entry = "run_pruning" /\ strategy = "recompute" /\ pc = "done"
    /\ c.n_steps = 2 /\ c.ff_frac > 0 /\ c.attn_frac > 0
    /\ Cardinality(Calls({"get_midlayer_activations"})) = 6
    /\ Cardinality(Calls(DeleteOps)) = 4
    /\ Cardinality(FirstScorings) = 2
    /\ \E k \in 1 .. Len(trace) :
          /\ IsCollect(k, "focus")
          /\ Cardinality({ d \in Calls(DeleteOps) : d < k }) = 2


IsStep(e) == e.op # "get_midlayer_activations"

\* the calls made so far, the collections left out
Steps == [k \in 1 .. Len(SelectSeq(trace, IsStep)) |-> SelectSeq(trace, IsStep)[k].op]

\* the calls of one orchestrator call pruning both kinds, in the order stated
StepOrder ==
    << "ff_scoring_fn", "get_top_frac_ff", "delete_ff_keys", "attn_scoring_fn",
       IF c.attn_prune_heads THEN "attn_head_scoring_fn" ELSE "get_top_frac_attn",
       IF c.attn_mode = "pre-out" THEN "delete_attn_pre_out" ELSE "delete_attn_values",
       "evaluate_all" >>

BothKinds ==
    /\ entry = "prune_and_evaluate"
    /\ c.ff_frac > 0 /\ c.attn_frac > 0
    /\ c.attn_mode \in {"pre-out", "value"}

\* C14: in one call of prune_and_evaluate pruning both kinds the calls made
\* are, in this order and each exactly once: FF scoring, FF selection, FF
\* deletion, attention scoring, attention selection (of heads, expanded, or
\* of units), attention deletion, evaluation; the row is returned after the
\* evaluation; attention is scored on a model whose selected FF units are
\* already removed, and the evaluation sees every deletion of the call.
C14_StepOrder ==
    BothKinds
    => /\ Len(Steps) <= Len(StepOrder)
       /\ \A k \in 1 .. Len(Steps) : Steps[k] = StepOrder[k]
       /\ \A op \in DeleteOps : Cardinality(Calls({op})) <= 1
       /\ Calls({"attn_scoring_fn"}) # {}
            => /\ Calls({"delete_ff_keys"}) # {}
               /\ opt.ff = sap.ff_criteria /\ sap.ff_criteria # {}
       /\ Calls({"evaluate_all"}) # {}
            => /\ Cardinality(Calls(DeleteOps)) = 2
               /\ opt.ff = sap.ff_criteria
               /\ opt.attn = { Flat(x) : x \in sap.attn_criteria }
       /\ ret # NoData
            => /\ pc = "done" /\ Len(Steps) = Len(StepOrder)
               /\ ret = data /\ ret.eval
       /\ pc = "done" => ret # NoData

\* C14 witness: a call that removed whole heads in 'value' mode has returned
\* its row
C14_Witness ==
    /\ BothKinds /\ pc = "done"
    /\ c.attn_prune_heads /\ c.attn_mode = "value"
    /\ Steps = StepOrder
    /\ opt.ff # {} /\ opt.attn # {}
    /\ ret.deletions.ff_del > 0 /\ ret.deletions.attn_del > 0


DeleteFailed == "RuntimeError: delete failed"

\* a run ended by a failed attention delete: the FF units selected in the
\* failed iteration stay removed, the attention units selected do not get
\* removed, and the history holds the rows of the earlier iterations only
NoRollback ==
    (entry = "run_pruning" /\ pc = "raised" /\ err = DeleteFailed)
    => /\ sap.ff_criteria \subseteq opt.ff
       /\ sap_do_ff => trace[Len(trace) - 2].op = "delete_ff_keys"
       /\ trace[Len(trace)].op \notin DeleteOps
       /\ Len(history) = run.i + (IF c.run_pre_test THEN 1 ELSE 0)
       /\ \A k \in 1 .. Len(history) :
             history[k].step = k - 1 - (IF c.run_pre_test THEN 1 ELSE 0)

\* the caller of run_pruning holds the history
HistoryReachesCaller ==
    (entry = "run_pruning" /\ pc = "raised" /\ err = DeleteFailed)
    => ret # NoData /\ ret.history = history

\* C15: when the attention delete fails after the FF delete of the same
\* call, nothing is rolled back, the failure ends run_pruning, no row is
\* added for the failed iteration, and the rows of the earlier iterations
\* are unchanged and in the hands of the caller.
C15_FailedDeleteKeepsHistory ==
    NoRollback /\ HistoryReachesCaller


\* the config score_and_prune is given in iteration it when the caller's
\* config is cf
Rescaled(cf, it) ==
    [cf EXCEPT !.ff_frac = IF cf.ff_frac * (it + 1) < One
                             THEN cf.ff_frac * (it + 1) ELSE One,
               !.attn_frac = IF cf.attn_frac * (it + 1) < One
                               THEN cf.attn_frac * (it + 1) ELSE One]

\* C16: no step of prune_and_evaluate or of run_pruning changes the caller's
\* PruningConfig; the rescaled fractions live in the copy made by the call,
\* which in every iteration is the caller's config rescaled once for that
\* iteration (and the caller's config itself when recomputation is on), so
\* the rescaling of one iteration never enters the next.
C16_ConfigUnchanged ==
    /\ [][c' = c]_vars
    /\ [](entry \in {"prune_and_evaluate", "run_pruning"}
            => /\ pc \in {"pae_collect_focus", "pae_collect_cripple", "pae_rescale"}
                    => pae.c = c
               /\ pc \in InScoreAndPrune
                    => /\ sap.pruning_config = pae.c
                       /\ pae.c = IF c.recalculate_activations THEN c
                                  ELSE Rescaled(c, pae.iteration)
               /\ (entry = "run_pruning" /\ strategy = "fixed"
                     /\ pc \in InScoreAndPrune) => pae.iteration = run.i)

\* C16 witness: the second iteration of a fixed-activations run works on a
\* copy holding ff_frac = 1.0 while the caller's config still holds 0.5
C16_Witness ==
    /\ entry = "run_pruning" /\ strategy = "fixed" /\ pc = "sap_ff_delete"
    /\ run.i = 1
    /\ c.ff_frac = 4 /\ pae.c.ff_frac = 8 /\ sap.pruning_config.ff_frac = 8

\* the row of the current score_and_prune call has been packaged
RowPackaged ==
    /\ data.kind = "prune"
    /\ \/ entry = "score_and_prune" /\ pc = "done"
       \/ pc = "pae_evaluate"

RECURSIVE SumOver(_, _)
SumOver(f, S) ==
    IF S = {} THEN 0
    ELSE LET x == CHOOSE y \in S : TRUE IN f[x] + SumOver(f, S \ {x})

\* the per-layer list of a pruned kind is a flat list with one number per
\* layer, the number of the criteria's units in that layer, adding up to
\* the reported total
PerLayerConsistent(kind, criteria, total) ==
    /\ per_layer_shape[kind] = << cfg.n_layers >>
    /\ DOMAIN data.deletions_per_layer[kind] = Layers
    /\ \A l \in Layers :
          data.deletions_per_layer[kind][l]
            = Cardinality({ x \in criteria : x[1] = l })
    /\ SumOver(data.deletions_per_layer[kind], Layers) = total
    /\ total = Cardinality(criteria)

FFRowConsistent ==
    RowPackaged =>
       IF sap_do_ff
         THEN /\ PerLayerConsistent("ff", sap.ff_criteria, data.deletions.ff_del)
              /\ data.deletions.ff_threshold = sap.ff_threshold
         ELSE /\ data.deletions.ff_threshold = 0 /\ data.deletions.ff_del = 0
              /\ data.raw.ff_scores = "None" /\ data.raw.ff_criteria = "None"

AttnRowConsistent ==
    RowPackaged =>
       IF sap_do_attn
         THEN /\ PerLayerConsistent("attn", sap.attn_criteria,
                                    data.deletions.attn_del)
              /\ data.deletions.attn_threshold = sap.attn_threshold
         ELSE /\ data.deletions.attn_threshold = 0 /\ data.deletions.attn_del = 0
              /\ data.raw.attn_scores = "None"
              /\ data.raw.attn_criteria = "None"

\* C17: every row returned by score_and_prune reports for each pruned kind
\* a threshold, a total count and a per-layer list with exactly one entry per
\* layer, entry l being the number of units removed in layer l and the
\* entries adding up to the total, on both attention paths; a kind that is
\* not pruned reports threshold 0, count 0 and no raw scores or criteria.
C17_RowConsistent == FFRowConsistent /\ AttnRowConsistent

\* a direct call of score_and_prune that prunes attention with a mode that
\* is neither 'pre-out' nor 'value'
DirectBadMode ==
    /\ entry = "score_and_prune"
    /\ sap_do_attn
    /\ ~recognized_attn_mode(sap.pruning_config.attn_mode)

NoDeletionApplied == opt = Pristine /\ Calls(DeleteOps) = {}

\* the same, for the calls that prune attention only
BadModeAttnOnly ==
    (DirectBadMode /\ ~sap_do_ff)
        => /\ NoDeletionApplied
           /\ pc # "done"
           /\ pc = "raised" => err = BadAttnMode

\* C18: a direct call of score_and_prune with attn_frac > 0 and a mode that
\* is neither 'pre-out' nor 'value' raises the attention-mode error without
\* having applied any deletion, also when ff_frac > 0.
C18_BadModeDeletesNothing ==
    (DirectBadMode /\ pc = "raised" /\ err = BadAttnMode) => NoDeletionApplied

\* a call of prune_random has failed for want of candidates
RandomFailed == pc = "raised" /\ err = InsufficientCandidates

\* every unit the caller's masks mark has been deleted from the model
MasksAgreeWithModel ==
    /\ Marked(run.ff_pruned) \subseteq opt.ff
    /\ Marked(run.attn_pruned) \subseteq opt.attn

\* the caller's masks are what they were when the call was made
MasksAsBefore ==
    /\ run.ff_pruned = arg.ff_pruned
    /\ run.attn_pruned = arg.attn_pruned

\* C19: when prune_random fails with the insufficient-candidates error, the
\* caller's cumulative masks still agree with the model (every marked unit
\* was deleted by a completed delete call): the failed call leaves the
\* passed-in masks as they were before the call, for every layer.
C19_FailedCallKeepsMasks ==
    (entry = "prune_random" /\ RandomFailed)
        => MasksAgreeWithModel /\ MasksAsBefore

====
